---- MODULE Spec2Model ----
(***************************************************************************)
(* A model of sg, a syntax-aware grep built on tree-sitter.                *)
(*                                                                         *)
(* Strings are sequences of characters; a character is a short TLA+ string *)
(* naming one Unicode scalar value.  Offsets into a str are BYTE offsets,  *)
(* as in Rust, so every character carries its UTF-8 length.                *)
(***************************************************************************)
EXTENDS Integers, Sequences, FiniteSets, TLC

(***************************************************************************)
(* Characters                                                              *)
(***************************************************************************)

\* '\n' and '\r'
LF == "LF"
CR == "CR"

\* U+00E9 / U+00C9 (two bytes each, alphabetic), U+0130 (two bytes, lowercases
\* to 'i' followed by U+0307, which is a combining mark and not alphabetic),
\* U+01C5 / U+01C6 (two bytes each; U+01C5 is a titlecase letter: it is not
\* uppercase and lowercases to U+01C6)
TwoByteChars == {"e'", "E'", "I.", "^.", "Dz", "dz"}

UpperChars == {"A", "T", "E'", "I."}

AlphaChars ==
    {"a", "A", "t", "T", "e", "s", "y", "j", "u", "i", "n", "g", "e'", "E'", "I.", "Dz", "dz"}

\* char::len_utf8
len_utf8(c) == IF c \in TwoByteChars THEN 2 ELSE 1

\* char::is_alphabetic
is_alphabetic(c) == c \in AlphaChars

\* char::is_uppercase
is_uppercase(c) == c \in UpperChars

\* char::to_lowercase: a character lowercases to a string
char_to_lowercase(c) ==
    CASE c = "A" -> <<"a">>
      [] c = "T" -> <<"t">>
      [] c = "E'" -> <<"e'">>
      [] c = "I." -> <<"i", "^.">>
      [] c = "Dz" -> <<"dz">>
      [] OTHER -> <<c>>

(***************************************************************************)
(* str                                                                     *)
(***************************************************************************)

RECURSIVE str_len(_)
\* str::len: the length in bytes
str_len(s) == IF s = <<>> THEN 0 ELSE len_utf8(Head(s)) + str_len(Tail(s))

RECURSIVE to_lowercase(_)
\* str::to_lowercase
to_lowercase(s) ==
    IF s = <<>> THEN <<>> ELSE char_to_lowercase(Head(s)) \o to_lowercase(Tail(s))

RECURSIVE byte_offsets_from(_, _)
\* str::char_indices: the byte offsets at which the characters of s start,
\* the first of them being at byte b, and then the byte at which s ends
byte_offsets_from(s, b) ==
    IF s = <<>> THEN <<b>> ELSE <<b>> \o byte_offsets_from(Tail(s), b + len_utf8(Head(s)))

byte_offsets(s) == byte_offsets_from(s, 0)

\* The byte offset at which the character of (1-based) index i starts;
\* i = Len(s) + 1 gives the length of s.
byte_of(s, i) == byte_offsets(s)[i]

\* str::is_char_boundary
is_char_boundary(s, b) ==
    LET bo == byte_offsets(s) IN \E i \in 1..Len(bo) : bo[i] = b

\* The index of the character that starts at byte b (Len(s) + 1 for b = len)
char_at(s, b) ==
    LET bo == byte_offsets(s) IN CHOOSE i \in 1..Len(bo) : bo[i] = b

\* The characters of s that start before byte b: s[..b].chars()
chars_before(s, b) ==
    LET bo == byte_offsets(s) IN Cardinality({i \in 1..Len(s) : bo[i] < b})

RECURSIVE match_indices_from(_, _, _)
\* str::match_indices, the search resumed at character index i: the first
\* occurrence at or after i, then the search again from the end of it.
match_indices_from(hay, p, i) ==
    IF i + Len(p) - 1 > Len(hay) THEN <<>>
    ELSE IF SubSeq(hay, i, i + Len(p) - 1) = p
         THEN <<byte_of(hay, i)>>
                  \o match_indices_from(hay, p, i + (IF p = <<>> THEN 1 ELSE Len(p)))
         ELSE match_indices_from(hay, p, i + 1)

\* str::match_indices: the start bytes of the matches of pat in hay
match_indices(hay, p) == match_indices_from(hay, p, 1)

(***************************************************************************)
(* Bounds of the model                                                     *)
(***************************************************************************)

\* Longest token text drawn for the literal matcher, in characters
MaxTokenLen == 4

\* Longest pattern drawn, in characters: half the longest token, so that a
\* pattern can occur twice in a token
MaxPatternLen == MaxTokenLen \div 2

\* Longest token text drawn for the position translator, in characters
MaxPosTokenLen == 3

\* Largest start column of a token drawn for the position translator
MaxColumn0 == 1

\* Most items (top-level syntax nodes) of a file drawn for the walk
MaxItems == 2

\* Most entries of the directory given on the command line
MaxEntries == 2

\* The largest number of entries of the dynamic symbol table of a library
MaxSyms == 2

\* All strings over the alphabet A of at most n characters
StringsUpTo(A, n) == UNION {[1..k -> A] : k \in 0..n}

(***************************************************************************)
(* State                                                                   *)
(***************************************************************************)

VARIABLES
    \* one call of match_token (search/word.rs): its arguments, whether the
    \* build has debug assertions, its position and what it returned
    mt_pc, token, pattern, is_id, whole_word, case_sensitive, mt_ret,
    \* one call of get_token_line_col (report.rs): its arguments, its locals
    \* (gl_chars is the number of characters the iterator `chars` has yielded,
    \* gl_i the loop counter) and its position
    gl_pc, gl_token, gl_column0, gl_idx, gl_chars, gl_line, gl_col, gl_i,
    \* the configuration (Cfg) and the search mode (Pat) of the invocation
    cfg, pat,
    \* the file being searched: its path (the indices of the directory entries
    \* that lead to it), its contents and its tree
    path, contents, nodes,
    \* the walk of that file (search/word.rs search_file): its position and
    \* its locals: the work list, header_printed, and the nodes popped so far
    wk_pc, work, header_printed, visited,
    \* `first` of main, standard output and standard error
    first, out, errs,
    \* a run of main: its position, what the path of the command line names,
    \* and the calls of walk_path in progress (each with the directory's path,
    \* its entries and the index of the next one)
    rn_pc, target, stack,
    \* what cli::parse_args returned for the search (whether a language was
    \* chosen, pattern, casing, query, captures), and the search mode mk_search_mode built from it: which of
    \* Pattern (then `pat` holds it) and Query (then `query` holds it)
    args, search_mode, query,
    \* one call of load_parser (dynamic.rs): its position, the file at
    \* lib_path, lang_name, what it returned, and whether the library was
    \* loaded and its function called; lang_sym is the local String that
    \* shadows lang_name, the name looked up in the library
    lp_pc, lib, lang_name, lang_sym, lp_ret, loaded, invoked

mt_vars == <<mt_pc, token, pattern, is_id, whole_word, case_sensitive, mt_ret>>

gl_vars == <<gl_pc, gl_token, gl_column0, gl_idx, gl_chars, gl_line, gl_col, gl_i>>

wk_vars == <<cfg, pat, path, contents, nodes, wk_pc, work, header_printed, visited,
             first, out, errs>>

rn_vars == <<rn_pc, target, stack, args, search_mode, query>>

lp_vars == <<lp_pc, lib, lang_name, lang_sym, lp_ret, loaded, invoked>>

vars == <<mt_vars, gl_vars, wk_vars, rn_vars, lp_vars>>

\* Option: Some(v) and None
Some(v) == [some |-> TRUE, val |-> v]
NoString == [some |-> FALSE, val |-> <<>>]

\* No query on the command line, and no query compiled
NoQuery == [some |-> FALSE, val |-> [tag |-> "Literal", valid |-> FALSE,
                                     comment |-> FALSE, patterns |-> <<>>]]

\* No arguments are modelled
NoArgs ==
    [lang |-> FALSE, pattern |-> NoString, casing |-> "Smart", query |-> NoQuery,
     captures |-> <<>>]

\* No call of load_parser is modelled
LoadIdle ==
    /\ lp_pc = "idle"
    /\ lib = [readable |-> FALSE, object |-> "none", loadable |-> FALSE, dynsyms |-> <<>>]
    /\ lang_name = NoString
    /\ lang_sym = <<>>
    /\ lp_ret = [ok |-> FALSE, err |-> "none"]
    /\ loaded = FALSE
    /\ invoked = FALSE

\* No run of main is modelled
RunIdle ==
    /\ rn_pc = "idle"
    /\ target = [kind |-> "none"]
    /\ stack = <<>>
    /\ args = NoArgs
    /\ search_mode = "None"
    /\ query = <<>>


\* No call of match_token is modelled
MatchIdle ==
    /\ mt_pc = "idle"
    /\ token = <<>>
    /\ pattern = <<>>
    /\ is_id = FALSE
    /\ whole_word = FALSE
    /\ case_sensitive = FALSE
    /\ mt_ret = [panicked |-> FALSE, offsets |-> <<>>]

\* No file is being searched
WalkIdle ==
    /\ cfg = [group |-> TRUE, column |-> FALSE, whole_word |-> FALSE,
              node_kinds |-> [identifier |-> TRUE, string |-> FALSE, comment |-> FALSE]]
    /\ pat = [word |-> <<>>, case_sensitive |-> FALSE]
    /\ path = <<>>
    /\ contents = <<>>
    /\ nodes = <<>>
    /\ wk_pc = "idle"
    /\ work = <<>>
    /\ header_printed = FALSE
    /\ visited = <<>>
    /\ first = TRUE
    /\ out = <<>>
    /\ errs = <<>>

\* No call of get_token_line_col is modelled
PosIdle ==
    /\ gl_pc = "idle"
    /\ gl_token = <<>>
    /\ gl_column0 = 0
    /\ gl_idx = 0
    /\ gl_chars = 0
    /\ gl_line = 0
    /\ gl_col = 0
    /\ gl_i = 0

(***************************************************************************)
(* search/word.rs: the literal matcher                                     *)
(***************************************************************************)

\* check_word_bounds that forgets the character after the match
check_word_bounds_before_only(text, match_begin, match_end) ==
    LET nb == chars_before(text, match_begin)
    IN  ~(nb > 0 /\ is_alphabetic(text[nb]))

\* check_word_bounds: neither the character before match_begin nor the one
\* at match_end is alphabetic (both are byte offsets on character boundaries)
check_word_bounds(text, match_begin, match_end) ==
    LET nb == chars_before(text, match_begin)
        ne == chars_before(text, match_end)
    IN  /\ ~(nb > 0 /\ is_alphabetic(text[nb]))
        /\ ~(ne < Len(text) /\ is_alphabetic(text[ne + 1]))

\* What a call returns: the offsets, or a panic (the debug assertion).
Returned(offsets) == [panicked |-> FALSE, offsets |-> offsets]
Panicked == [panicked |-> TRUE, offsets |-> <<>>]

RECURSIVE all_indices_from(_, _, _)
\* Every occurrence of pat in hay from character index i on, overlapping ones too
all_indices_from(hay, p, i) ==
    IF i + Len(p) - 1 > Len(hay) THEN <<>>
    ELSE (IF SubSeq(hay, i, i + Len(p) - 1) = p THEN <<byte_of(hay, i)>> ELSE <<>>)
             \o all_indices_from(hay, p, i + 1)

\* match_token reporting overlapping occurrences too
match_token_overlapping(tok, p, id, ww, cs, dbg) ==
    IF dbg /\ ~cs /\ p # to_lowercase(p) THEN Panicked
    ELSE LET t == IF ~cs THEN to_lowercase(tok) ELSE tok
         IN  IF id /\ ww
             THEN Returned(IF t = p THEN <<0>> ELSE <<>>)
             ELSE Returned(SelectSeq(all_indices_from(t, p, 1),
                      LAMBDA b : ~(ww /\ ~check_word_bounds(t, b, b + str_len(p)))))

\* match_token without the special case for whole-word identifiers
match_token_no_special_case(tok, p, id, ww, cs, dbg) ==
    IF dbg /\ ~cs /\ p # to_lowercase(p) THEN Panicked
    ELSE LET t == IF ~cs THEN to_lowercase(tok) ELSE tok
         IN  Returned(SelectSeq(match_indices(t, p),
                      LAMBDA b : ~(ww /\ ~check_word_bounds(t, b, b + str_len(p)))))

\* match_token, in a build with (dbg) or without debug assertions
match_token(tok, p, id, ww, cs, dbg) ==
    IF dbg /\ ~cs /\ p # to_lowercase(p) THEN Panicked
    ELSE LET t == IF ~cs THEN to_lowercase(tok) ELSE tok
         IN  IF id /\ ww
             THEN Returned(IF t = p THEN <<0>> ELSE <<>>)
             ELSE Returned(SelectSeq(match_indices(t, p),
                      LAMBDA b : ~(ww /\ ~check_word_bounds(t, b, b + str_len(p)))))

\* The alphabet of the tokens and patterns drawn for the matcher
MatchChars == {"a", "A", " ", "e'"}

\* The tokens and patterns of test_match_token and of tests.rs
TestTokens ==
    { <<"t","e","s","t">>, <<"T","e","s","t">>, <<"t","e","s","t","t","e","s","t">>,
      <<"j","u","s","t"," ","t","e","s","t","i","n","g">>,
      <<"t","e","y"," ","t","e"," ","t","e","y">>,
      <<"t","e","y"," ","T","e"," ","t","e","y">> }

TestPatterns == { <<"t","e","s","t">>, <<"T","e","s","t">>, <<"t","e">>, <<"T","e">> }

MatchTokens == StringsUpTo(MatchChars, MaxTokenLen) \cup TestTokens

MatchPatterns == (StringsUpTo(MatchChars, MaxPatternLen) \ {<<>>}) \cup TestPatterns

\* A caller is about to call match_token with some arguments.
MatchInit ==
    /\ mt_pc = "call"
    /\ token \in MatchTokens
    /\ pattern \in MatchPatterns
    /\ is_id \in BOOLEAN
    /\ whole_word \in BOOLEAN
    /\ case_sensitive \in BOOLEAN
    /\ mt_ret = Returned(<<>>)
    /\ PosIdle
    /\ WalkIdle
    /\ RunIdle
    /\ LoadIdle

\* The call runs to its return (or to the failed assertion).
MatchToken ==
    /\ mt_pc = "call"
    /\ \E dbg \in BOOLEAN :
           mt_ret' = match_token(token, pattern, is_id, whole_word, case_sensitive, dbg)
    /\ mt_pc' = "done"
    /\ UNCHANGED <<token, pattern, is_id, whole_word, case_sensitive>>
    /\ UNCHANGED <<gl_vars, wk_vars, rn_vars, lp_vars>>

MatchNext == MatchToken

SpecMatch == MatchInit /\ [][MatchNext]_vars

(***************************************************************************)
(* report.rs: the position translator                                      *)
(***************************************************************************)

\* Iterator::next on `chars`: the next character of the token, or None
None == "None"
chars_next(tok, yielded) == IF yielded < Len(tok) THEN tok[yielded + 1] ELSE None

\* The body of the loop of get_token_line_col, on its locals: chars (the
\* number of characters the iterator has yielded), line and col
line_col_step(tok, st) ==
    LET c == chars_next(tok, st.chars)
    IN  [chars |-> IF c = None THEN st.chars ELSE st.chars + 1,
         line  |-> IF c = LF THEN st.line + 1 ELSE st.line,
         col   |-> IF c = LF THEN 0 ELSE st.col + 1]

RECURSIVE line_col_loop(_, _, _)
\* n iterations of the loop
line_col_loop(tok, st, n) ==
    IF n = 0 THEN st ELSE line_col_loop(tok, line_col_step(tok, st), n - 1)

\* get_token_line_col(token, column0, idx): the pair (line, col)
get_token_line_col(tok, column0, idx) ==
    LET st == line_col_loop(tok, [chars |-> 0, line |-> 0, col |-> column0], idx)
    IN  <<st.line, st.col>>

\* The alphabet of the tokens drawn for the translator
PosChars == {"a", LF, CR, "e'"}

PosTokens == StringsUpTo(PosChars, MaxPosTokenLen)

\* report_match is about to call get_token_line_col(token, pos.column, match_)
PosInit ==
    /\ gl_pc = "loop"
    /\ gl_token \in PosTokens
    /\ gl_column0 \in 0..MaxColumn0
    /\ gl_idx \in 0..str_len(gl_token)
    /\ gl_chars = 0
    /\ gl_line = 0
    /\ gl_col = gl_column0
    /\ gl_i = 0
    /\ MatchIdle
    /\ WalkIdle
    /\ RunIdle
    /\ LoadIdle

\* One iteration of `for _ in 0..idx`
GetTokenLineColStep ==
    /\ gl_pc = "loop"
    /\ gl_i < gl_idx
    /\ LET st == line_col_step(gl_token, [chars |-> gl_chars, line |-> gl_line, col |-> gl_col])
       IN  /\ gl_chars' = st.chars
           /\ gl_line' = st.line
           /\ gl_col' = st.col
    /\ gl_i' = gl_i + 1
    /\ UNCHANGED <<gl_pc, gl_token, gl_column0, gl_idx>>
    /\ UNCHANGED <<mt_vars, wk_vars, rn_vars, lp_vars>>

\* The loop is over: return (line, col)
GetTokenLineColReturn ==
    /\ gl_pc = "loop"
    /\ gl_i = gl_idx
    /\ gl_pc' = "done"
    /\ UNCHANGED <<gl_token, gl_column0, gl_idx, gl_chars, gl_line, gl_col, gl_i>>
    /\ UNCHANGED <<mt_vars, wk_vars, rn_vars, lp_vars>>

\* The value get_token_line_col returns
get_token_line_col_ret == <<gl_line, gl_col>>

PosNext == GetTokenLineColStep \/ GetTokenLineColReturn

SpecPos == PosInit /\ [][PosNext]_vars

(***************************************************************************)
(* The tree provider (tree-sitter): source files and their syntax trees    *)
(*                                                                         *)
(* A file is a sequence of items, one per line.  An item is a piece of     *)
(* text with the nodes tree-sitter builds over it; the byte ranges of an   *)
(* item's nodes are relative to the start of the item.                     *)
(***************************************************************************)

DQ == "DQ"

Leaf(kind, s, e) == [kind |-> kind, s |-> s, e |-> e, kids |-> <<>>]
Inner(kind, s, e, kids) == [kind |-> kind, s |-> s, e |-> e, kids |-> kids]

\* `a`
ItemIdent == [text |-> <<"a">>, nodes |-> <<Leaf("identifier", 0, 1)>>]

\* `// a A`
ItemLineComment ==
    [text |-> <<"/", "/", " ", "a", " ", "A">>, nodes |-> <<Leaf("line_comment", 0, 6)>>]

\* `"aa"`: a string literal that is one token
ItemString ==
    [text |-> <<DQ, "a", "a", DQ>>, nodes |-> <<Leaf("string_literal", 0, 4)>>]

\* `"a"` parsed with the quotes and the content as children
ItemStringKids ==
    [text |-> <<DQ, "a", DQ>>,
     nodes |-> <<Inner("string_literal", 0, 3, <<2, 3, 4>>),
                 Leaf("DQ", 0, 1), Leaf("string_content", 1, 2), Leaf("DQ", 2, 3)>>]

\* `A(a)`: call_expression(identifier, arguments(identifier))
ItemCall ==
    [text |-> <<"A", "(", "a", ")">>,
     nodes |-> <<Inner("call_expression", 0, 4, <<2, 3>>),
                 Leaf("identifier", 0, 1),
                 Inner("arguments", 1, 4, <<4, 5, 6>>),
                 Leaf("(", 1, 2), Leaf("identifier", 2, 3), Leaf(")", 3, 4)>>]

\* A block comment over two lines with a two-byte character: `/*e'` `a*/`
ItemBlockComment ==
    [text |-> <<"/", "*", "e'", LF, "a", "*", "/">>,
     nodes |-> <<Leaf("block_comment", 0, 8)>>]

\* `"ae'"` with a string_literal node whose byte range ends inside the
\* two-byte character, so that its text does not decode
ItemUndecodable ==
    [text |-> <<DQ, "a", "e'", DQ>>,
     nodes |-> <<Inner("string_literal", 0, 3, <<2, 3>>),
                 Leaf("DQ", 0, 1), Leaf("string_content", 1, 2)>>]

Items ==
    {ItemIdent, ItemLineComment, ItemString, ItemStringKids, ItemCall,
     ItemBlockComment, ItemUndecodable}

RECURSIVE file_text(_)
\* The text of a file: every item followed by a newline
file_text(items) ==
    IF items = <<>> THEN <<>> ELSE Head(items).text \o <<LF>> \o file_text(Tail(items))

RECURSIVE file_nodes(_, _, _)
\* The nodes of the items, the first of them getting the node id base + 1 and
\* starting at byte off
file_nodes(items, base, off) ==
    IF items = <<>> THEN <<>>
    ELSE LET it == Head(items)
             placed == [k \in 1..Len(it.nodes) |->
                          [kind |-> it.nodes[k].kind,
                           start_byte |-> off + it.nodes[k].s,
                           end_byte |-> off + it.nodes[k].e,
                           children |-> [j \in 1..Len(it.nodes[k].kids) |->
                                             base + it.nodes[k].kids[j]]]]
         IN  placed \o file_nodes(Tail(items), base + Len(it.nodes),
                                  off + str_len(it.text) + 1)

RECURSIVE item_roots(_, _)
\* The node ids of the items' first nodes
item_roots(items, base) ==
    IF items = <<>> THEN <<>>
    ELSE <<base + 1>> \o item_roots(Tail(items), base + Len(Head(items).nodes))

\* Parser::parse and Tree::root_node: the nodes of the tree, the root first
parse(items) ==
    <<[kind |-> "source_file", start_byte |-> 0, end_byte |-> str_len(file_text(items)),
       children |-> item_roots(items, 1)]>>
        \o file_nodes(items, 1, 0)

\* The id of the root node
Root == 1

\* Node::child_count
child_count(tree, n) == Len(tree[n].children)

RECURSIVE preorder(_, _, _)
RECURSIVE preorder_all(_, _, _)
\* The nodes of the subtree of n in pre-order, the children of every node
\* taken left to right or (rev) right to left
preorder(tree, n, rev) ==
    LET ch == tree[n].children
    IN  <<n>> \o preorder_all(tree,
                     IF rev THEN [i \in 1..Len(ch) |-> ch[Len(ch) + 1 - i]] ELSE ch, rev)
preorder_all(tree, ns, rev) ==
    IF ns = <<>> THEN <<>>
    ELSE preorder(tree, Head(ns), rev) \o preorder_all(tree, Tail(ns), rev)

\* Node::start_position: the row, and the column in bytes, of the node's first byte
start_position(source, tree, n) ==
    LET k == chars_before(source, tree[n].start_byte)
        brs == {i \in 1..k : source[i] = LF}
        last == IF brs = {} THEN 0 ELSE CHOOSE i \in brs : \A j \in brs : j <= i
    IN  [row |-> Cardinality(brs),
         column |-> tree[n].start_byte - byte_of(source, last + 1)]

\* Node::utf8_text: the text of the node's byte range, or an error when the
\* range does not hold whole characters
Ok(v) == [ok |-> TRUE, val |-> v]
Err == [ok |-> FALSE, val |-> <<>>]
utf8_text(source, tree, n) ==
    LET sb == tree[n].start_byte
        eb == tree[n].end_byte
    IN  IF is_char_boundary(source, sb) /\ is_char_boundary(source, eb)
        THEN Ok(SubSeq(source, char_at(source, sb), char_at(source, eb) - 1))
        ELSE Err

RECURSIVE lines_from(_, _)
\* str::lines: the text split at '\n', a '\r' before the '\n' dropped with it
lines_from(s, cur) ==
    IF s = <<>> THEN (IF cur = <<>> THEN <<>> ELSE <<cur>>)
    ELSE IF Head(s) = LF
         THEN <<IF cur # <<>> /\ cur[Len(cur)] = CR THEN SubSeq(cur, 1, Len(cur) - 1) ELSE cur>>
                  \o lines_from(Tail(s), <<>>)
         ELSE lines_from(Tail(s), Append(cur, Head(s)))

lines(s) == lines_from(s, <<>>)

\* &s[from..to] does not panic: the range is in s and on character boundaries
slice_ok(s, from, to) ==
    /\ from <= to
    /\ to <= str_len(s)
    /\ is_char_boundary(s, from)
    /\ is_char_boundary(s, to)

\* &s[from..to]
slice(s, from, to) == SubSeq(s, char_at(s, from), char_at(s, to) - 1)

(***************************************************************************)
(* main.rs: the search mode                                                *)
(***************************************************************************)

Casings == {"Smart", "Sensitive", "Insensitive"}

\* get_pat_sensitivity that takes Smart for Insensitive
get_pat_sensitivity_never_smart(p, casing) ==
    IF casing = "Sensitive" THEN [word |-> p, case_sensitive |-> TRUE]
    ELSE [word |-> to_lowercase(p), case_sensitive |-> FALSE]

\* get_pat_sensitivity and the Pattern arm of mk_search_mode: the Pat built
\* from the pattern of the command line and the case policy
get_pat_sensitivity(p, casing) ==
    CASE casing = "Smart" ->
             [word |-> p, case_sensitive |-> \E i \in 1..Len(p) : is_uppercase(p[i])]
      [] casing = "Sensitive" -> [word |-> p, case_sensitive |-> TRUE]
      [] casing = "Insensitive" -> [word |-> to_lowercase(p), case_sensitive |-> FALSE]

(***************************************************************************)
(* report.rs: printing a match                                             *)
(*                                                                         *)
(* Standard output is a sequence of events: a blank line, a header (the    *)
(* path of a file on a line of its own) or the line of a match.            *)
(***************************************************************************)

\* print_header that does not look at header_printed
print_header_every_match(c, file, st) ==
    IF c.group
    THEN [st EXCEPT !.out = st.out
                               \o (IF st.first THEN <<>> ELSE <<[ev |-> "blank"]>>)
                               \o <<[ev |-> "header", path |-> file]>>,
                    !.first = FALSE,
                    !.header_printed = TRUE]
    ELSE st

\* print_header: the blank line and the header, when grouping and the file
\* has none yet; st holds out, header_printed and first
print_header(c, file, st) ==
    IF ~st.header_printed /\ c.group
    THEN [st EXCEPT !.out = st.out
                               \o (IF st.first THEN <<>> ELSE <<[ev |-> "blank"]>>)
                               \o <<[ev |-> "header", path |-> file]>>,
                    !.first = FALSE,
                    !.header_printed = TRUE]
    ELSE st

\* print_file_path: the path in front of a match line, when not grouping
\* (<<>> stands for nothing printed)
print_file_path(c, file) == IF ~c.group THEN file ELSE <<>>

\* print_line_number: the number it prints for its argument
print_line_number(line) == line + 1

\* report_match: the events one match adds.  A match line carries what was
\* printed (path, line number, column number or 0 for none, and the line cut
\* in three) and, for reference, the node and the offset it reports; `text`
\* is <<>> when the line was not found and the call returned early, and the
\* call can panic in slicing the line.
report_match(ctx, n, token_str, match_, st) ==
    LET pos == start_position(ctx.contents, ctx.nodes, n)
        lc == get_token_line_col(token_str, pos.column, match_)
        line == pos.row + lc[1]
        column == lc[2]
        st1 == print_header(ctx.cfg, ctx.path, st)
        file_lines == lines(ctx.contents)
        plen == str_len(ctx.pattern)
        printed(text) ==
            [ev |-> "match",
             path |-> print_file_path(ctx.cfg, ctx.path),
             lineno |-> print_line_number(line + 1),
             colno |-> IF ctx.cfg.column THEN column + 1 ELSE 0,
             node |-> n, off |-> match_, text |-> text]
    IN  IF line >= Len(file_lines)
        THEN [st1 EXCEPT !.out = Append(st1.out, printed(<<>>)),
                         !.errs = Append(st1.errs, <<"Unable to get line", pos.row>>)]
        ELSE LET l == file_lines[line + 1]
             IN  IF /\ slice_ok(l, 0, column)
                    /\ slice_ok(l, column, column + plen)
                    /\ slice_ok(l, column + plen, str_len(l))
                 THEN [st1 EXCEPT !.out = Append(st1.out,
                                     printed(<<slice(l, 0, column),
                                               slice(l, column, column + plen),
                                               slice(l, column + plen, str_len(l))>>))]
                 ELSE [st1 EXCEPT !.out = Append(st1.out, printed(<<>>)),
                                  !.status = "panicked"]

RECURSIVE report_matches(_, _, _, _, _)
\* The loop `for match_ in match_token(..)`: report_match for every offset,
\* up to a panic
report_matches(ctx, n, token_str, offsets, st) ==
    IF offsets = <<>> \/ st.status = "panicked" THEN st
    ELSE report_matches(ctx, n, token_str, Tail(offsets),
                        report_match(ctx, n, token_str, Head(offsets), st))

(***************************************************************************)
(* search/word.rs: the walk of one file                                    *)
(***************************************************************************)

\* The classification at the head of the loop body: is_comment, is_id and search
is_comment(kind) == kind = "block_comment" \/ kind = "line_comment"

\* is_id without the test for a comment
is_id_any_leaf(c, tree, n) == child_count(tree, n) = 0 /\ c.node_kinds.identifier

is_id_node(c, tree, n) ==
    ~is_comment(tree[n].kind) /\ child_count(tree, n) = 0 /\ c.node_kinds.identifier

search_node(c, tree, n) ==
    \/ is_comment(tree[n].kind) /\ c.node_kinds.comment
    \/ tree[n].kind = "string_literal" /\ c.node_kinds.string
    \/ is_id_node(c, tree, n)

\* The state of a walk as it starts: the root on the work list
walk_start(fst, o, e) ==
    [work |-> <<Root>>, header_printed |-> FALSE, first |-> fst,
     out |-> o, errs |-> e, visited |-> <<>>, status |-> "walking"]

\* The children pushed in the reverse order, the first child on top
push_children_reversed(wrk, children) ==
    wrk \o [i \in 1..Len(children) |-> children[Len(children) + 1 - i]]

\* `for child in node.children(..) { work.push(child) }`
push_children(wrk, children) == wrk \o children

\* One iteration of `while let Some(node) = work.pop()`, in a build with
\* (dbg) or without debug assertions.  `visited` logs, for every node popped,
\* the locals `search` and `is_id` and whether match_token was called on it.
walk_iteration(ctx, st, dbg) ==
    LET n == st.work[Len(st.work)]
        search == search_node(ctx.cfg, ctx.nodes, n)
        is_id_ == is_id_node(ctx.cfg, ctx.nodes, n)
        token_str == utf8_text(ctx.contents, ctx.nodes, n)
        popped == [st EXCEPT !.work = SubSeq(st.work, 1, Len(st.work) - 1),
                             !.visited = Append(st.visited,
                                 [node |-> n, search |-> search, is_id |-> is_id_,
                                  matched |-> search /\ token_str.ok])]
        pushed(t) == [t EXCEPT !.work = push_children(t.work, ctx.nodes[n].children)]
    IN  IF search
        THEN IF ~token_str.ok
             THEN \* `continue`: the children are not pushed
                  [popped EXCEPT !.errs = Append(popped.errs, <<"Unable to decode token", n>>)]
             ELSE LET m == match_token(token_str.val, ctx.pattern, is_id_,
                                       ctx.cfg.whole_word, ctx.case_sensitive, dbg)
                  IN  IF m.panicked
                      THEN [popped EXCEPT !.status = "panicked"]
                      ELSE LET reported == report_matches(ctx, n, token_str.val,
                                                          m.offsets, popped)
                           IN  IF reported.status = "panicked" THEN reported
                               ELSE pushed(reported)
        ELSE pushed(popped)

RECURSIVE walk_loop(_, _, _)
\* The loop of the walk, to its end or to a panic
walk_loop(ctx, st, dbg) ==
    IF st.work = <<>> \/ st.status = "panicked" THEN st
    ELSE CHOOSE final \in {walk_loop(ctx, next, dbg) :
                               next \in {walk_iteration(ctx, st, dbg)}} : TRUE

\* The node kinds --kind can select: at least one (cli.rs parse_args)
NodeKindSets ==
    {k \in [identifier : BOOLEAN, string : BOOLEAN, comment : BOOLEAN] :
        k.identifier \/ k.string \/ k.comment}

\* The configurations of an invocation
Cfgs == [group : BOOLEAN, column : BOOLEAN, whole_word : BOOLEAN, node_kinds : NodeKindSets]

\* Whether the build checks debug assertions: it matters to match_token only
\* when the search is case-insensitive and the pattern is not folded
Builds(pt) ==
    IF ~pt.case_sensitive /\ pt.word # to_lowercase(pt.word) THEN BOOLEAN ELSE {TRUE}

\* The patterns given on the command line
CliPatterns == {<<"a">>, <<"A">>}

\* The search modes mk_search_mode builds from them
Pats == {get_pat_sensitivity(p, c) : p \in CliPatterns, c \in Casings}

\* The files drawn: at most MaxItems items
Files == UNION {[1..k -> Items] : k \in 0..MaxItems}

\* What the walk works on
Ctx ==
    [cfg |-> cfg, pattern |-> pat.word, case_sensitive |-> pat.case_sensitive,
     path |-> path, contents |-> contents, nodes |-> nodes]

\* The locals of the walk
WalkState ==
    [work |-> work, header_printed |-> header_printed, first |-> first,
     out |-> out, errs |-> errs, visited |-> visited,
     status |-> IF wk_pc = "panicked" THEN "panicked" ELSE "walking"]

\* main.rs search_file has read and parsed the first file of a run and
\* enters the walk, the matches grouped by file
WalkInit ==
    /\ cfg \in {c \in Cfgs : c.group /\ c.column}
    /\ pat \in Pats
    /\ path = <<1>>
    /\ \E items \in Files :
           /\ contents = file_text(items)
           /\ nodes = parse(items)
    /\ wk_pc = "walking"
    /\ work = <<Root>>
    /\ header_printed = FALSE
    /\ visited = <<>>
    /\ first = TRUE
    /\ out = <<>>
    /\ errs = <<>>
    /\ MatchIdle
    /\ PosIdle
    /\ RunIdle
    /\ LoadIdle

\* One iteration of the loop of the walk
WalkIteration ==
    /\ wk_pc = "walking"
    /\ work # <<>>
    /\ \E dbg \in Builds(pat) :
           LET st == walk_iteration(Ctx, WalkState, dbg)
           IN  /\ work' = st.work
               /\ header_printed' = st.header_printed
               /\ first' = st.first
               /\ out' = st.out
               /\ errs' = st.errs
               /\ visited' = st.visited
               /\ wk_pc' = IF st.status = "panicked" THEN "panicked" ELSE "walking"
    /\ UNCHANGED <<cfg, pat, path, contents, nodes>>
    /\ UNCHANGED <<mt_vars, gl_vars, rn_vars, lp_vars>>

\* The work list is empty: the walk returns
WalkReturn ==
    /\ wk_pc = "walking"
    /\ work = <<>>
    /\ wk_pc' = "done"
    /\ UNCHANGED <<cfg, pat, path, contents, nodes, work, header_printed, visited,
                   first, out, errs>>
    /\ UNCHANGED <<mt_vars, gl_vars, rn_vars, lp_vars>>

WalkNext == WalkIteration \/ WalkReturn

SpecWalk == WalkInit /\ [][WalkNext]_vars

(***************************************************************************)
(* search/query.rs: structural queries                                     *)
(*                                                                         *)
(* The text of a query is modelled by what it says: whether it is          *)
(* well-formed, its patterns, and whether it ends inside a comment.  A     *)
(* pattern is a node kind, the names captured on the node and at most one  *)
(* pattern for a child of the node.                                        *)
(***************************************************************************)

QPattern(kind, caps, kids) == [kind |-> kind, caps |-> caps, kids |-> kids]

QText(valid, comment, patterns) ==
    [tag |-> "Literal", valid |-> valid, comment |-> comment, patterns |-> patterns]

\* No capture is added to the text of the query
push_no_capture(q) == q

\* query_str.push_str(" @node"): the capture lands on the last pattern; with
\* no pattern before it the text is no query, and at the end of a comment it
\* is a part of the comment
push_node_capture(q) ==
    IF q.comment THEN q
    ELSE IF q.patterns = <<>> THEN [q EXCEPT !.valid = FALSE]
    ELSE [q EXCEPT !.patterns[Len(q.patterns)].caps = Append(@, "node")]

\* Query::new: the patterns of a well-formed text, or an error
Query_new(q) == IF q.valid THEN Ok(q.patterns) ELSE Err

RECURSIVE pattern_matches(_, _, _)
RECURSIVE child_matches(_, _, _, _)
\* The matches of a pattern at node n, each the list of its captures (name
\* and node): the captures of the node, then those of the child
pattern_matches(tree, pt, n) ==
    IF tree[n].kind # pt.kind THEN <<>>
    ELSE LET own == [i \in 1..Len(pt.caps) |-> [name |-> pt.caps[i], node |-> n]]
         IN  IF pt.kids = <<>> THEN <<own>>
             ELSE LET sub == child_matches(tree, pt.kids[1], tree[n].children, 1)
                  IN  [i \in 1..Len(sub) |-> own \o sub[i]]

child_matches(tree, pt, children, i) ==
    IF i > Len(children) THEN <<>>
    ELSE pattern_matches(tree, pt, children[i]) \o child_matches(tree, pt, children, i + 1)

RECURSIVE node_matches(_, _, _, _)
\* The matches of the patterns from the i-th on at node n
node_matches(tree, patterns, n, i) ==
    IF i > Len(patterns) THEN <<>>
    ELSE pattern_matches(tree, patterns[i], n) \o node_matches(tree, patterns, n, i + 1)

RECURSIVE query_matches(_, _, _)
\* The matches of a query at the nodes ns, in this order
query_matches(tree, patterns, ns) ==
    IF ns = <<>> THEN <<>>
    ELSE node_matches(tree, patterns, Head(ns), 1)
             \o query_matches(tree, patterns, Tail(ns))

RECURSIVE captures_of(_)
\* QueryCursor::captures: an item for every capture of every match, in the
\* order of the document, each item holding the match the capture is part
\* of, with all its captures
captures_of(matches) ==
    IF matches = <<>> THEN <<>>
    ELSE [i \in 1..Len(Head(matches)) |-> Head(matches)] \o captures_of(Tail(matches))

captures(patterns, tree) ==
    captures_of(query_matches(tree, patterns, preorder(tree, Root, FALSE)))

\* Node::range, of which the bytes are used
range(tree, n) == [start_byte |-> tree[n].start_byte, end_byte |-> tree[n].end_byte]

RECURSIVE sort_by_key_start_byte(_)
\* capture_ranges.sort_by_key(|range| range.start_byte): a stable sort, by
\* insertion from the back
sort_by_key_start_byte(ranges) ==
    IF ranges = <<>> THEN <<>>
    ELSE LET rest == sort_by_key_start_byte(Tail(ranges))
             r == Head(ranges)
             before == SelectSeq(rest, LAMBDA x : x.start_byte < r.start_byte)
             after == SelectSeq(rest, LAMBDA x : x.start_byte >= r.start_byte)
         IN  before \o <<r>> \o after

RECURSIVE digits(_)
\* The length of format!("{}", n)
digits(n) == IF n < 10 THEN 1 ELSE 1 + digits(n \div 10)

\* What print_line_number returns: the width of what it printed
print_line_number_ret(line) == digits(line + 1) + 1

\* The marks around a highlighted capture: cfg.match_style.prefix() and
\* suffix(), which are empty without colors
HlOn == "<hl>"
HlOff == "</hl>"

RECURSIVE push_until(_, _, _, _)
\* `while chars.peek().unwrap().0 != b { .. }` of report_node_match: o holds
\* the output, the index i of the next character of node_str and whether
\* unwrap has panicked
push_until(node_str, indent, b, o) ==
    IF o.panicked THEN o
    ELSE IF o.i > Len(node_str) THEN [o EXCEPT !.panicked = TRUE]
    ELSE IF byte_of(node_str, o.i) = b THEN o
    ELSE CHOOSE r \in
             {push_until(node_str, indent, b, o1) :
                o1 \in {[o EXCEPT !.i = o.i + 1,
                                  !.output = o.output \o <<node_str[o.i]>>
                                      \o (IF node_str[o.i] = LF
                                          THEN [k \in 1..indent |-> " "] ELSE <<>>)]}} :
             TRUE

RECURSIVE push_ranges(_, _, _, _)
\* `for range in capture_ranges.iter()` of report_node_match
push_ranges(node_str, indent, ranges, o) ==
    IF ranges = <<>> \/ o.panicked THEN o
    ELSE LET o1 == push_until(node_str, indent, Head(ranges).start_byte, o)
             o2 == [o1 EXCEPT !.output = Append(o1.output, HlOn)]
             o3 == push_until(node_str, indent, Head(ranges).end_byte, o2)
             o4 == [o3 EXCEPT !.output = Append(o3.output, HlOff)]
         IN  CHOOSE r \in {push_ranges(node_str, indent, Tail(ranges), x) :
                              x \in {IF o1.panicked THEN o1
                                     ELSE IF o3.panicked THEN o3 ELSE o4}} : TRUE

RECURSIVE push_rest(_, _, _)
\* `while let Some((_, c)) = chars.next()` of report_node_match: the rest of
\* the node, a newline followed by the indentation
push_rest(node_str, indent, o) ==
    IF o.i > Len(node_str) THEN o
    ELSE CHOOSE r \in
             {push_rest(node_str, indent, o1) :
                o1 \in {[o EXCEPT !.i = o.i + 1,
                                  !.output = o.output \o <<node_str[o.i]>>
                                      \o (IF node_str[o.i] = LF
                                          THEN [k \in 1..indent |-> " "] ELSE <<>>)]}} :
             TRUE

\* report_node_match: the events the match of a node adds.  The event of a
\* node carries what was printed (path, line number, the text of the node
\* with its highlights) and, for reference, the node, its text, the ranges and the
\* captures of the match, each with its name, node, range and text; `text`
\* is <<>> when the call panicked.
report_node_match(ctx, n, capture_ranges, group, st) ==
    LET text == utf8_text(ctx.contents, ctx.nodes, n)
    IN  IF ~text.ok
        THEN [st EXCEPT !.errs = Append(st.errs, <<"Unable to decode token", n>>)]
        ELSE LET node_str == text.val
                 row == start_position(ctx.contents, ctx.nodes, n).row
                 st1 == print_header(ctx.cfg, ctx.path, st)
                 indent == print_line_number_ret(row)
                 o == push_ranges(node_str, indent, capture_ranges,
                                  [i |-> 1, output |-> <<>>, panicked |-> FALSE])
                 printed(t) == [ev |-> "node",
                                path |-> print_file_path(ctx.cfg, ctx.path),
                                lineno |-> print_line_number(row),
                                node |-> n, node_str |-> node_str,
                                ranges |-> capture_ranges,
                                captures |->
                                    [k \in 1..Len(group) |->
                                        [name |-> group[k].name, node |-> group[k].node,
                                         range |-> range(ctx.nodes, group[k].node),
                                         text |-> utf8_text(ctx.contents, ctx.nodes,
                                                            group[k].node)]],
                                text |-> t]
             IN  IF o.panicked
                 THEN [st1 EXCEPT !.out = Append(st1.out, printed(<<>>)),
                                  !.status = "panicked"]
                 ELSE [st1 EXCEPT !.out = Append(st1.out,
                                      printed(push_rest(node_str, indent, o).output))]

\* The body of the loop of run_query for one item of captures()
run_query_item(ctx, group, st) ==
    LET parent == group[1].node
        rest == [i \in 1..(Len(group) - 1) |-> range(ctx.nodes, group[i + 1].node)]
    IN  report_node_match(ctx, parent, sort_by_key_start_byte(rest), group, st)

RECURSIVE run_query_loop(_, _, _)
\* `for (match_, _) in query_cursor.captures(..)`, up to a panic
run_query_loop(ctx, items, st) ==
    IF items = <<>> \/ st.status = "panicked" THEN st
    ELSE CHOOSE final \in {run_query_loop(ctx, Tail(items), next) :
                              next \in {run_query_item(ctx, Head(items), st)}} : TRUE

(***************************************************************************)
(* main.rs: a run over a file or a directory                               *)
(*                                                                         *)
(* What a path names is an entry: a file (with the right extension or not, *)
(* readable or not, parsable or not, and its items), a directory (readable *)
(* or not, and its entries), or a directory entry that cannot be read or   *)
(* has no metadata.  The path of an entry is the sequence of the indices   *)
(* that lead to it.                                                        *)
(***************************************************************************)

Entry(kind, ext_ok, readable, parses, items, entries) ==
    [kind |-> kind, ext_ok |-> ext_ok, readable |-> readable, parses |-> parses,
     items |-> items, entries |-> entries]

BadEntry == Entry("bad_entry", FALSE, FALSE, FALSE, <<>>, <<>>)
NoMetadata == Entry("no_metadata", FALSE, FALSE, FALSE, <<>>, <<>>)
FileA == Entry("file", TRUE, TRUE, TRUE, <<ItemIdent, ItemLineComment>>, <<>>)
FileB == Entry("file", TRUE, TRUE, TRUE, <<ItemCall>>, <<>>)
FileOtherExt == Entry("file", FALSE, TRUE, TRUE, <<ItemIdent>>, <<>>)
FileUnreadable == Entry("file", TRUE, FALSE, FALSE, <<>>, <<>>)
FileUnparsable == Entry("file", TRUE, TRUE, FALSE, <<ItemIdent>>, <<>>)
Dir(entries) == Entry("dir", FALSE, TRUE, FALSE, <<>>, entries)
DirUnreadable == Entry("dir", FALSE, FALSE, FALSE, <<>>, <<>>)

FileEntries == {FileA, FileB, FileOtherExt, FileUnreadable, FileUnparsable}

SubDirs == {DirUnreadable, Dir(<<FileA, FileUnparsable>>), Dir(<<FileUnreadable, FileB>>)}

DirEntries == {BadEntry, NoMetadata} \cup FileEntries \cup SubDirs

\* What the path of the command line can name
Targets ==
    FileEntries \cup {DirUnreadable}
        \cup {Dir(es) : es \in UNION {[1..k -> DirEntries] : k \in 0..MaxEntries}}

\* The call walk_ast(tree.root_node(), ..) of search_file, run to its end
walk_ast(c, pt, file, source, tree, rs, dbg) ==
    LET ctx == [cfg |-> c, pattern |-> pt.word, case_sensitive |-> pt.case_sensitive,
                path |-> file, contents |-> source, nodes |-> tree]
    IN  CHOOSE r \in {[first |-> st.first, out |-> st.out, errs |-> st.errs,
                       status |-> IF st.status = "panicked" THEN "panicked" ELSE "ok",
                       contents |-> source, nodes |-> tree,
                       walk |-> IF st.status = "panicked" THEN "panicked" ELSE "done",
                       header_printed |-> st.header_printed, visited |-> st.visited] :
                          st \in {walk_loop(ctx, walk_start(rs.first, rs.out, rs.errs),
                                            dbg)}} : TRUE

\* The call run_query(path, query, ..) of search_file, run to its end
run_query(c, qy, file, source, tree, rs) ==
    LET ctx == [cfg |-> c, path |-> file, contents |-> source, nodes |-> tree]
        st0 == [walk_start(rs.first, rs.out, rs.errs) EXCEPT !.work = <<>>]
    IN  CHOOSE r \in {[first |-> st.first, out |-> st.out, errs |-> st.errs,
                       status |-> IF st.status = "panicked" THEN "panicked" ELSE "ok",
                       contents |-> source, nodes |-> tree,
                       walk |-> IF st.status = "panicked" THEN "panicked" ELSE "done",
                       header_printed |-> st.header_printed, visited |-> <<>>] :
                          st \in {run_query_loop(ctx, captures(qy, tree), st0)}} : TRUE

\* `match search_mode` of search_file: sm holds the search mode, with its
\* Pat or its Query
search_tree(c, sm, file, source, tree, rs, dbg) ==
    IF sm.mode = "Pattern"
    THEN walk_ast(c, sm.pat, file, source, tree, rs, dbg)
    ELSE run_query(c, sm.query, file, source, tree, rs)

\* search_file (main.rs) that gives the run up when a file fails
search_file_fatal(c, sm, file, entry, rs, dbg) ==
    IF ~entry.readable \/ ~entry.parses
    THEN [first |-> rs.first, out |-> rs.out, errs |-> rs.errs, status |-> "panicked",
          contents |-> <<>>, nodes |-> <<>>, walk |-> "idle",
          header_printed |-> FALSE, visited |-> <<>>]
    ELSE search_tree(c, sm, file, file_text(entry.items), parse(entry.items), rs, dbg)

\* search_file (main.rs): read the file, parse it and search the tree; rs
\* holds first, out and errs.  A file that cannot be read or parsed is reported
\* and left.
search_file(c, sm, file, entry, rs, dbg) ==
    IF ~entry.readable
    THEN [first |-> rs.first, out |-> rs.out,
          errs |-> Append(rs.errs, <<"Unable to read", file>>), status |-> "ok",
          contents |-> <<>>, nodes |-> <<>>, walk |-> "idle",
          header_printed |-> FALSE, visited |-> <<>>]
    ELSE IF ~entry.parses
    THEN [first |-> rs.first, out |-> rs.out,
          errs |-> Append(rs.errs, <<"Unable to parse", file>>), status |-> "ok",
          contents |-> file_text(entry.items), nodes |-> <<>>, walk |-> "idle",
          header_printed |-> FALSE, visited |-> <<>>]
    ELSE search_tree(c, sm, file, file_text(entry.items), parse(entry.items), rs, dbg)

\* The configurations and the search modes of the runs drawn
RunCfgs ==
    {c \in Cfgs : /\ ~c.whole_word
                  /\ c.node_kinds = [identifier |-> TRUE, string |-> FALSE, comment |-> TRUE]}

\* main has parsed its arguments and built the search mode, a Pattern, and
\* the parser (the arguments it was built from are not kept)
RunInit ==
    /\ rn_pc = "main"
    /\ target \in Targets
    /\ stack = <<>>
    /\ args = NoArgs
    /\ search_mode = "Pattern"
    /\ query = <<>>
    /\ LoadIdle
    /\ cfg \in RunCfgs
    /\ pat \in Pats
    /\ path = <<>>
    /\ contents = <<>>
    /\ nodes = <<>>
    /\ wk_pc = "idle"
    /\ work = <<>>
    /\ header_printed = FALSE
    /\ visited = <<>>
    /\ first = TRUE
    /\ out = <<>>
    /\ errs = <<>>
    /\ MatchIdle
    /\ PosIdle

\* The call search_file(search_mode, path, cfg, first) of main or of
\* walk_path; the run goes on at return_pc unless the call panics
SearchFile(file, entry, return_pc) ==
    \E dbg \in Builds(pat) :
        LET r == search_file(cfg, [mode |-> search_mode, pat |-> pat, query |-> query],
                             file, entry,
                             [first |-> first, out |-> out, errs |-> errs], dbg)
        IN  /\ first' = r.first
            /\ out' = r.out
            /\ errs' = r.errs
            /\ path' = file
            /\ contents' = r.contents
            /\ nodes' = r.nodes
            /\ wk_pc' = r.walk
            /\ work' = <<>>
            /\ header_printed' = r.header_printed
            /\ visited' = r.visited
            /\ rn_pc' = IF r.status = "panicked" THEN "panicked" ELSE return_pc

\* The per-file state is left as it is
NoFile == UNCHANGED <<path, contents, nodes, wk_pc, work, header_printed, visited,
                      first, out>>

\* The call walk_path(.., dir, ..): read_dir, and the loop entered or, when
\* the directory cannot be read, the return
EnterDir(dir, entry, below) ==
    IF entry.readable
    THEN /\ stack' = Append(below, [dir |-> dir, entries |-> entry.entries, idx |-> 1])
         /\ errs' = errs
    ELSE /\ stack' = below
         /\ errs' = Append(errs, <<"Unable to read contents", dir>>)

\* main, from the path to its last line: a directory is walked, anything
\* else is searched as a file
Main ==
    /\ rn_pc = "main"
    /\ IF target.kind = "dir"
       THEN /\ EnterDir(<<>>, target, <<>>)
            /\ rn_pc' = "walk_path"
            /\ NoFile
       ELSE /\ SearchFile(<<>>, target, "walk_path")
            /\ stack' = <<>>
    /\ UNCHANGED <<cfg, pat, target, args, search_mode, query>>
    /\ UNCHANGED <<mt_vars, gl_vars, lp_vars>>

\* One iteration of `for file in dir_contents` in the innermost walk_path
WalkPathEntry ==
    /\ rn_pc = "walk_path"
    /\ stack # <<>>
    /\ LET top == stack[Len(stack)]
           below == SubSeq(stack, 1, Len(stack) - 1)
       IN  /\ top.idx <= Len(top.entries)
           /\ LET file == top.entries[top.idx]
                  fpath == Append(top.dir, top.idx)
                  advanced == Append(below, [top EXCEPT !.idx = top.idx + 1])
              IN  CASE file.kind = "bad_entry" ->
                           /\ errs' = Append(errs, <<"Unable to read dir entry", fpath>>)
                           /\ stack' = advanced
                           /\ rn_pc' = rn_pc
                           /\ NoFile
                    [] file.kind = "no_metadata" ->
                           /\ errs' = Append(errs, <<"Unable to get metadata", fpath>>)
                           /\ stack' = advanced
                           /\ rn_pc' = rn_pc
                           /\ NoFile
                    [] file.kind = "dir" ->
                           /\ EnterDir(fpath, file, advanced)
                           /\ rn_pc' = rn_pc
                           /\ NoFile
                    [] file.kind = "file" /\ file.ext_ok ->
                           /\ SearchFile(fpath, file, rn_pc)
                           /\ stack' = advanced
                    [] file.kind = "file" /\ ~file.ext_ok ->
                           /\ stack' = advanced
                           /\ rn_pc' = rn_pc
                           /\ errs' = errs
                           /\ NoFile
    /\ UNCHANGED <<cfg, pat, target, args, search_mode, query>>
    /\ UNCHANGED <<mt_vars, gl_vars, lp_vars>>

\* The loop of the innermost walk_path is over: it returns
WalkPathReturn ==
    /\ rn_pc = "walk_path"
    /\ stack # <<>>
    /\ stack[Len(stack)].idx > Len(stack[Len(stack)].entries)
    /\ stack' = SubSeq(stack, 1, Len(stack) - 1)
    /\ UNCHANGED <<rn_pc, target, args, search_mode, query, wk_vars>>
    /\ UNCHANGED <<mt_vars, gl_vars, lp_vars>>

\* main returns
MainReturn ==
    /\ rn_pc = "walk_path"
    /\ stack = <<>>
    /\ rn_pc' = "done"
    /\ UNCHANGED <<target, stack, args, search_mode, query, wk_vars>>
    /\ UNCHANGED <<mt_vars, gl_vars, lp_vars>>

RunNext == Main \/ WalkPathEntry \/ WalkPathReturn \/ MainReturn

SpecRun == RunInit /\ [][RunNext]_vars

(***************************************************************************)
(* main.rs: the whole of main, from the arguments on                       *)
(***************************************************************************)

\* mk_search_mode that searches with what it can make of a query that does
\* not compile
mk_search_mode_lenient(p, q, casing) ==
    IF ~q.some
    THEN IF ~p.some
         THEN [status |-> "exited", mode |-> "None",
               pat |-> [word |-> <<>>, case_sensitive |-> FALSE], query |-> <<>>]
         ELSE [status |-> "ok", mode |-> "Pattern",
               pat |-> get_pat_sensitivity(p.val, casing), query |-> <<>>]
    ELSE [status |-> "ok", mode |-> "Query",
          pat |-> [word |-> <<>>, case_sensitive |-> FALSE],
          query |-> push_node_capture(q.val).patterns]

\* mk_search_mode: the search mode built from the pattern, the query and
\* the case policy, unless the process exits (neither a pattern nor a query)
\* or panics (a query that does not compile, a query name)
mk_search_mode(p, q, casing) ==
    LET result(status, mode, pt, qy) ==
            [status |-> status, mode |-> mode, pat |-> pt, query |-> qy]
        no_pat == [word |-> <<>>, case_sensitive |-> FALSE]
    IN  IF ~q.some
        THEN IF ~p.some THEN result("exited", "None", no_pat, <<>>)
             ELSE result("ok", "Pattern", get_pat_sensitivity(p.val, casing), <<>>)
        ELSE IF q.val.tag = "Literal"
        THEN LET compiled == Query_new(push_node_capture(q.val))
             IN  IF compiled.ok THEN result("ok", "Query", no_pat, compiled.val)
                 ELSE result("panicked", "None", no_pat, <<>>)
        ELSE result("panicked", "None", no_pat, <<>>)

\* The queries of --qs drawn: (identifier); (identifier) @id;
\* (call_expression (identifier) @f);
\* (source_file (call_expression (identifier) @f) @call); an unbalanced
\* text; the empty text; (identifier) followed by an open comment
QIdent == QText(TRUE, FALSE, <<QPattern("identifier", <<>>, <<>>)>>)
QIdentCap == QText(TRUE, FALSE, <<QPattern("identifier", <<"id">>, <<>>)>>)
QCall ==
    QText(TRUE, FALSE,
          <<QPattern("call_expression", <<>>, <<QPattern("identifier", <<"f">>, <<>>)>>)>>)
QNested ==
    QText(TRUE, FALSE,
          <<QPattern("source_file", <<>>,
                     <<QPattern("call_expression", <<"call">>,
                                <<QPattern("identifier", <<"f">>, <<>>)>>)>>)>>)
QInvalid == QText(FALSE, FALSE, <<>>)
QEmpty == QText(TRUE, FALSE, <<>>)
QCommented == QText(TRUE, TRUE, <<QPattern("identifier", <<>>, <<>>)>>)

\* A query of --qn
QName == [QEmpty EXCEPT !.tag = "Name"]

QueryTexts == {QIdent, QIdentCap, QCall, QNested, QInvalid, QEmpty, QCommented, QName}

\* The values of -c drawn, as pairs of a capture name and the value expected
CaptureMaps ==
    {<<>>, <<[name |-> "node", value |-> <<"A">>]>>,
     <<[name |-> "node", value |-> <<"b">>], [name |-> "id", value |-> <<"b">>]>>}

\* The patterns drawn for the whole of main
MainPatterns == {<<"a">>, <<"A">>, <<"Dz">>, <<"a", "A">>}

\* The arguments drawn: a search for a pattern (cli.rs keeps the captures
\* only with a query) or a search with a query
MainArgs ==
    {[lang |-> l, pattern |-> p, casing |-> c, query |-> NoQuery, captures |-> <<>>] :
        l \in BOOLEAN, p \in {NoString} \cup {Some(w) : w \in MainPatterns}, c \in Casings}
    \cup
    {[lang |-> TRUE, pattern |-> p, casing |-> "Smart", query |-> Some(q), captures |-> m] :
        p \in {NoString, Some(<<"a">>)}, q \in QueryTexts, m \in CaptureMaps}

\* What the path of the command line names in these runs
MainTargets ==
    {FileA, FileB, FileUnparsable, DirUnreadable,
     Dir(<<FileB, FileA>>), Dir(<<FileUnreadable, Dir(<<FileA, FileUnparsable>>)>>),
     Dir(<<BadEntry, FileOtherExt>>), Dir(<<NoMetadata, DirUnreadable>>)}

MainCfgs == {c \in RunCfgs : ~c.column}

\* cli::parse_args has returned
MainInit ==
    /\ rn_pc = "start"
    /\ args \in MainArgs
    /\ target \in MainTargets
    /\ cfg \in MainCfgs
    /\ search_mode = "None"
    /\ query = <<>>
    /\ stack = <<>>
    /\ pat = [word |-> <<>>, case_sensitive |-> FALSE]
    /\ path = <<>>
    /\ contents = <<>>
    /\ nodes = <<>>
    /\ wk_pc = "idle"
    /\ work = <<>>
    /\ header_printed = FALSE
    /\ visited = <<>>
    /\ first = TRUE
    /\ out = <<>>
    /\ errs = <<>>
    /\ MatchIdle
    /\ PosIdle
    /\ LoadIdle

\* main, from the language to `let mut first = true`: without a language the
\* process exits, and mk_search_mode builds the search mode, exits or panics
Start ==
    /\ rn_pc = "start"
    /\ IF ~args.lang
       THEN /\ rn_pc' = "exited"
            /\ errs' = Append(errs, <<"No language specified; aborting.", <<>>>>)
            /\ UNCHANGED <<search_mode, pat, query>>
       ELSE LET m == mk_search_mode(args.pattern, args.query, args.casing)
            IN  /\ rn_pc' = (IF m.status = "ok" THEN "main" ELSE m.status)
                /\ search_mode' = m.mode
                /\ pat' = m.pat
                /\ query' = m.query
                /\ errs' = IF m.status = "exited"
                           THEN Append(errs, <<"At least a pattern or a query", <<>>>>)
                           ELSE IF m.status = "panicked"
                           THEN Append(errs, <<"panicked", <<>>>>)
                           ELSE errs
    /\ UNCHANGED <<cfg, path, contents, nodes, wk_pc, work, header_printed, visited,
                   first, out>>
    /\ UNCHANGED <<target, stack, args>>
    /\ UNCHANGED <<mt_vars, gl_vars, lp_vars>>

MainNext == Start \/ RunNext

SpecMain == MainInit /\ [][MainNext]_vars

(***************************************************************************)
(* dynamic.rs: loading a parser from a shared library                      *)
(*                                                                         *)
(* A symbol name is a sequence of pieces, each piece a run of bytes that   *)
(* the prefix and the suffixes of dynamic.rs do not split.  The file at    *)
(* lib_path is a record: whether it can be read, what goblin makes of its  *)
(* contents ("elf", "other" for another object format it parses, or        *)
(* "unparsable"), whether the dynamic loader accepts it, and its dynamic   *)
(* symbol table, an entry of which is Some(name) or, when the string table *)
(* has no valid name at st_name, None.                                     *)
(***************************************************************************)

\* Language symbol starts with this
TS_SYM_PREFIX == <<"tree_sitter_">>

\* Language symbol should not end with any these
TS_SYM_SUFFIXES ==
    << <<"external_scanner_create">>, <<"external_scanner_deserialize">>,
       <<"external_scanner_destroy">>, <<"external_scanner_reset">>,
       <<"external_scanner_scan">>, <<"external_scanner_serialize">> >>

\* str::starts_with and str::ends_with
starts_with(s, prefix) ==
    /\ Len(prefix) <= Len(s)
    /\ SubSeq(s, 1, Len(prefix)) = prefix

ends_with(s, suffix) ==
    /\ Len(suffix) <= Len(s)
    /\ SubSeq(s, Len(s) - Len(suffix) + 1, Len(s)) = suffix

\* The flag ts_sym of find_lang_sym after the loop over the suffixes
ts_sym_unchecked(sym_name) == FALSE

ts_sym(sym_name) ==
    \E i \in 1..Len(TS_SYM_SUFFIXES) : ends_with(sym_name, TS_SYM_SUFFIXES[i])

\* The loop of find_lang_sym over elf.dynsyms from entry i on: None, or the
\* rest after the prefix of the first name that starts with the prefix and
\* has ts_sym false
RECURSIVE dynsyms_loop(_, _)
dynsyms_loop(dynsyms, i) ==
    IF i > Len(dynsyms) THEN NoString
    ELSE IF /\ dynsyms[i].some
            /\ starts_with(dynsyms[i].val, TS_SYM_PREFIX)
            /\ ~ts_sym(dynsyms[i].val)
    THEN Some(SubSeq(dynsyms[i].val, Len(TS_SYM_PREFIX) + 1, Len(dynsyms[i].val)))
    ELSE dynsyms_loop(dynsyms, i + 1)

\* find_lang_sym: Err(IO), Err(Goblin) or Ok of an optional name
find_lang_sym_parse_lenient(l) ==
    IF ~l.readable THEN [ok |-> FALSE, err |-> "IO", val |-> NoString]
    ELSE IF l.object = "elf"
    THEN [ok |-> TRUE, err |-> "none", val |-> dynsyms_loop(l.dynsyms, 1)]
    ELSE [ok |-> TRUE, err |-> "none", val |-> NoString]

find_lang_sym(l) ==
    IF ~l.readable THEN [ok |-> FALSE, err |-> "IO", val |-> NoString]
    ELSE IF l.object = "unparsable" THEN [ok |-> FALSE, err |-> "Goblin", val |-> NoString]
    ELSE IF l.object = "elf"
    THEN [ok |-> TRUE, err |-> "none", val |-> dynsyms_loop(l.dynsyms, 1)]
    ELSE [ok |-> TRUE, err |-> "none", val |-> NoString]

\* libloading's Library::get: the library exports a symbol of this name
Library_get(l, name) ==
    \E i \in 1..Len(l.dynsyms) : l.dynsyms[i] = Some(name)

\* The names drawn for the entries of a symbol table
SymNames ==
    {<<"main">>, <<"rust">>, <<"tree_sitter_">>,
     <<"tree_sitter_", "rust">>,
     <<"tree_sitter_", "external_scanner_scan">>}
    \cup {<<"tree_sitter_", "rust_">> \o TS_SYM_SUFFIXES[i] : i \in 1..Len(TS_SYM_SUFFIXES)}

SymEntries == {NoString} \cup {Some(n) : n \in SymNames}

SymTables == UNION {[1..k -> SymEntries] : k \in 0..MaxSyms}

\* The files drawn for lib_path: a file that cannot be read, one goblin
\* cannot parse, and object files with a symbol table, ELF or not, that the
\* loader accepts or not
Libs ==
    {[readable |-> FALSE, object |-> "unparsable", loadable |-> FALSE, dynsyms |-> <<>>],
     [readable |-> TRUE, object |-> "unparsable", loadable |-> FALSE, dynsyms |-> <<>>]}
    \cup
    {[readable |-> TRUE, object |-> o, loadable |-> d, dynsyms |-> t] :
        o \in {"elf", "other"}, d \in BOOLEAN, t \in SymTables}

\* The values drawn for the argument lang_name
LangNames == {NoString, Some(<<"tree_sitter_", "rust">>), Some(<<"rust">>)}

\* load_parser is called
LoadInit ==
    /\ lp_pc = "start"
    /\ lib \in Libs
    /\ lang_name \in LangNames
    /\ lang_sym = <<>>
    /\ lp_ret = [ok |-> FALSE, err |-> "none"]
    /\ loaded = FALSE
    /\ invoked = FALSE
    /\ MatchIdle
    /\ PosIdle
    /\ WalkIdle
    /\ RunIdle

\* `let lang_name = match lang_name { .. }`: the name given, or the one
\* find_lang_sym finds; its error, or CantFindLangName, is returned
LangName ==
    /\ lp_pc = "start"
    /\ IF lang_name.some
       THEN /\ lang_sym' = lang_name.val
            /\ lp_pc' = "named"
            /\ UNCHANGED lp_ret
       ELSE LET r == find_lang_sym(lib)
            IN  IF ~r.ok
                THEN /\ lp_ret' = [ok |-> FALSE, err |-> r.err]
                     /\ lp_pc' = "returned"
                     /\ UNCHANGED lang_sym
                ELSE IF ~r.val.some
                THEN /\ lp_ret' = [ok |-> FALSE, err |-> "CantFindLangName"]
                     /\ lp_pc' = "returned"
                     /\ UNCHANGED lang_sym
                ELSE /\ lang_sym' = r.val.val
                     /\ lp_pc' = "named"
                     /\ UNCHANGED lp_ret
    /\ UNCHANGED <<lib, lang_name, loaded, invoked>>
    /\ UNCHANGED <<mt_vars, gl_vars, wk_vars, rn_vars>>

\* `libloading::Library::new(lib_path)?`
LibraryNew ==
    /\ lp_pc = "named"
    /\ IF lib.loadable
       THEN /\ loaded' = TRUE
            /\ lp_pc' = "loaded"
            /\ UNCHANGED lp_ret
       ELSE /\ lp_ret' = [ok |-> FALSE, err |-> "Libloading"]
            /\ lp_pc' = "returned"
            /\ UNCHANGED loaded
    /\ UNCHANGED <<lib, lang_name, lang_sym, invoked>>
    /\ UNCHANGED <<mt_vars, gl_vars, wk_vars, rn_vars>>

\* `library.get(lang_name.as_bytes())?`
LibraryGet ==
    /\ lp_pc = "loaded"
    /\ IF Library_get(lib, lang_sym)
       THEN /\ lp_pc' = "got"
            /\ UNCHANGED lp_ret
       ELSE /\ lp_ret' = [ok |-> FALSE, err |-> "Libloading"]
            /\ lp_pc' = "returned"
    /\ UNCHANGED <<lib, lang_name, lang_sym, loaded, invoked>>
    /\ UNCHANGED <<mt_vars, gl_vars, wk_vars, rn_vars>>

\* `language_fn()` and `Ok(language)`
LanguageFn ==
    /\ lp_pc = "got"
    /\ invoked' = TRUE
    /\ lp_ret' = [ok |-> TRUE, err |-> "none"]
    /\ lp_pc' = "returned"
    /\ UNCHANGED <<lib, lang_name, lang_sym, loaded>>
    /\ UNCHANGED <<mt_vars, gl_vars, wk_vars, rn_vars>>

LoadNext == LangName \/ LibraryNew \/ LibraryGet \/ LanguageFn

SpecLoad == LoadInit /\ [][LoadNext]_vars

(***************************************************************************)
(* Properties of the position translator                                   *)
(***************************************************************************)

\* The call returned for an offset on a character boundary of the token
PosReturned == gl_pc = "done" /\ is_char_boundary(gl_token, gl_idx)

\* t[0..k]
Prefix(t, k) == SubSeq(t, 1, chars_before(t, k))

\* The indices in s of its line breaks: every '\n', and every '\r' that is
\* not followed by a '\n'
LineBreaks(s) ==
    {i \in 1..Len(s) : \/ s[i] = LF
                       \/ s[i] = CR /\ ~(i < Len(s) /\ s[i + 1] = LF)}

\* C4: the number of lines the translator reports as crossed up to byte k is
\* the number of '\n' plus the number of lone '\r' in t[0..k].
C4_LinesCrossed ==
    PosReturned => gl_line = Cardinality(LineBreaks(Prefix(gl_token, gl_idx)))

\* The column, in characters, of byte k of a token that starts at column c0
CharColumn(t, c0, k) ==
    LET p == Prefix(t, k)
        br == LineBreaks(p)
    IN  IF br = {} THEN c0 + Len(p)
        ELSE Len(p) - (CHOOSE i \in br : \A j \in br : j <= i)

\* s holds no '\r', so that its line breaks are its '\n'
NoCR(s) == \A i \in 1..Len(s) : s[i] # CR

\* C5: the translator walks exactly the characters of t that start before
\* byte k and returns the column in characters: start column plus the
\* characters of t[0..k] when no line break precedes k, else the characters
\* after the last line break before k.  Stated for the tokens without '\r',
\* whose only line breaks are '\n'.
C5_ColumnInChars ==
    (PosReturned /\ NoCR(gl_token)) =>
        /\ gl_chars = chars_before(gl_token, gl_idx)
        /\ gl_col = CharColumn(gl_token, gl_column0, gl_idx)

\* C6: called with byte offset 0 the translator returns (0, start_col, 0):
\* line delta 0, the start column, column byte offset 0.
C6_OffsetZero ==
    (gl_pc = "done" /\ gl_idx = 0) => get_token_line_col_ret = <<0, gl_column0, 0>>

(***************************************************************************)
(* Properties of the literal matcher                                       *)
(***************************************************************************)

\* The token as the matcher compares it
NormalizedToken == IF case_sensitive THEN token ELSE to_lowercase(token)

\* The call returned, and the caller had folded the pattern as required
MatchReturned ==
    /\ mt_pc = "done"
    /\ ~mt_ret.panicked
    /\ (case_sensitive \/ pattern = to_lowercase(pattern))

\* p occurs in t at byte offset b
OccursAt(t, p, b) ==
    \E i \in 1..(Len(t) + 1) :
        /\ byte_of(t, i) = b
        /\ i + Len(p) - 1 <= Len(t)
        /\ \A k \in 1..Len(p) : t[i + k - 1] = p[k]

\* C1: with whole_word = FALSE, match_token returns the start offsets of the
\* leftmost-first non-overlapping occurrences of the pattern in the
\* case-normalized token, ascending: every offset is an occurrence, consecutive
\* offsets are at least len(pattern) apart, and an occurrence that is not
\* returned starts inside a returned one.
C1_NonOverlappingOccurrences ==
    (MatchReturned /\ ~whole_word) =>
        LET t == NormalizedToken
            r == mt_ret.offsets
            n == str_len(pattern)
        IN  /\ \A k \in 1..Len(r) : OccursAt(t, pattern, r[k])
            /\ \A k \in 1..(Len(r) - 1) : r[k + 1] >= r[k] + n
            /\ \A b \in 0..str_len(t) :
                   (OccursAt(t, pattern, b) /\ \A k \in 1..Len(r) : r[k] # b)
                       => \E k \in 1..Len(r) : r[k] < b /\ b < r[k] + n

\* C1 happens: two occurrences are returned and an overlapping one is skipped
C1_Witness ==
    /\ MatchReturned /\ ~whole_word
    /\ Len(mt_ret.offsets) >= 2
    /\ \E b \in 0..str_len(NormalizedToken) :
           /\ OccursAt(NormalizedToken, pattern, b)
           /\ \A k \in 1..Len(mt_ret.offsets) : mt_ret.offsets[k] # b

\* C2: for an identifier with whole_word = TRUE, match_token returns [0] if
\* and only if the whole case-normalized token equals the pattern, and []
\* otherwise.
C2_WholeWordIdentifier ==
    (MatchReturned /\ is_id /\ whole_word) =>
        /\ mt_ret.offsets \in {<<0>>, <<>>}
        /\ (mt_ret.offsets = <<0>>) <=> (NormalizedToken = pattern)

\* C2 happens: the pattern occurs inside a longer identifier and nothing is reported
C2_Witness ==
    /\ MatchReturned /\ is_id /\ whole_word
    /\ NormalizedToken # pattern
    /\ \E b \in 0..str_len(NormalizedToken) : OccursAt(NormalizedToken, pattern, b)
    /\ mt_ret.offsets = <<>>

\* The character that ends at byte b, if any, is not alphabetic
BoundaryBefore(t, b) ==
    \A i \in 1..Len(t) : byte_of(t, i + 1) = b => ~is_alphabetic(t[i])

\* The character that starts at byte e, if any, is not alphabetic
BoundaryAfter(t, e) ==
    \A i \in 1..Len(t) : byte_of(t, i) = e => ~is_alphabetic(t[i])

\* C3: for a non-identifier token with whole_word = TRUE, match_token keeps
\* exactly the occurrences of the non-overlapping scan (the whole_word = FALSE
\* result) that have no alphabetic character right before and right after.
C3_WordBoundaries ==
    (MatchReturned /\ ~is_id /\ whole_word) =>
        LET t == NormalizedToken
            scan == match_token(token, pattern, is_id, FALSE, case_sensitive, FALSE).offsets
        IN  mt_ret.offsets =
                SelectSeq(scan, LAMBDA b : BoundaryBefore(t, b)
                                           /\ BoundaryAfter(t, b + str_len(pattern)))

\* C3 happens: of several occurrences one is kept and one is dropped
C3_Witness ==
    /\ MatchReturned /\ ~is_id /\ whole_word
    /\ Len(mt_ret.offsets) >= 1
    /\ Len(mt_ret.offsets)
           < Len(match_token(token, pattern, is_id, FALSE, case_sensitive, FALSE).offsets)

(***************************************************************************)
(* Properties of the walk of one file                                      *)
(***************************************************************************)

\* The match lines printed so far, in the order printed
MatchLines == SelectSeq(out, LAMBDA ev : ev.ev = "match")

\* The three cases in which a node is searched
CommentCase(n) ==
    nodes[n].kind \in {"block_comment", "line_comment"} /\ cfg.node_kinds.comment

StringCase(n) == nodes[n].kind = "string_literal" /\ cfg.node_kinds.string

IdentifierCase(n) ==
    /\ nodes[n].kind \notin {"block_comment", "line_comment"}
    /\ nodes[n].children = <<>>
    /\ cfg.node_kinds.identifier

Searched(n) == CommentCase(n) \/ StringCase(n) \/ IdentifierCase(n)

\* C7: a node is searched, its text going to match_token when it decodes, if
\* and only if it is a comment and comments are searched, or a string literal
\* and strings are searched, or not a comment, without children, and
\* identifiers are searched; it is matched as an identifier exactly in the
\* third case; no other node produces a match.
C7_Classification ==
    /\ \A k \in 1..Len(visited) :
           LET v == visited[k]
           IN  /\ v.search <=> Searched(v.node)
               /\ v.is_id <=> IdentifierCase(v.node)
               /\ v.matched <=> (Searched(v.node) /\ utf8_text(contents, nodes, v.node).ok)
    /\ \A k \in 1..Len(MatchLines) : Searched(MatchLines[k].node)

\* C7 happens: one walk has met a comment leaf that is not searched, a node
\* with children that is not searched, and nodes searched in each of the
\* three cases
C7_Witness ==
    /\ wk_pc = "done"
    /\ \E k \in 1..Len(visited) :
           /\ nodes[visited[k].node].kind = "line_comment"
           /\ ~visited[k].search
    /\ \E k \in 1..Len(visited) :
           /\ nodes[visited[k].node].children # <<>>
           /\ ~visited[k].search
    /\ \E k \in 1..Len(visited) : visited[k].matched /\ visited[k].is_id
    /\ \E k \in 1..Len(visited) :
           /\ visited[k].matched /\ ~visited[k].is_id
           /\ nodes[visited[k].node].kind = "string_literal"
    /\ MatchLines # <<>>

\* The place of node n in the sequence of nodes order
PlaceIn(order, n) == CHOOSE i \in 1..Len(order) : order[i] = n

\* The nodes are processed in the order `order`
VisitedInOrder(order) ==
    \A i, j \in 1..Len(visited) :
        i < j => PlaceIn(order, visited[i].node) < PlaceIn(order, visited[j].node)

\* The match lines are printed in the order `order` of their nodes, the
\* matches of one token by ascending offset
EmittedInOrder(order) ==
    /\ \A i, j \in 1..Len(MatchLines) :
           i < j =>
               \/ PlaceIn(order, MatchLines[i].node) < PlaceIn(order, MatchLines[j].node)
               \/ /\ MatchLines[i].node = MatchLines[j].node
                  /\ MatchLines[i].off < MatchLines[j].off

\* C8 as stated: the match records are emitted in the order of the pre-order
\* traversal that takes the children of a node left to right (document order).
C8_DocumentOrder == EmittedInOrder(preorder(nodes, Root, FALSE))

\* C8, amended: the match records are emitted in the order of the pre-order
\* traversal that takes the children of a node right to left: a node before
\* its descendants, a later sibling's subtree before an earlier sibling's,
\* and the occurrences in one token by ascending offset.
C8_ReverseChildOrder ==
    /\ VisitedInOrder(preorder(nodes, Root, TRUE))
    /\ EmittedInOrder(preorder(nodes, Root, TRUE))

\* C8 happens: a walk has reported a node and then one of its children, two
\* siblings, and two occurrences in one token
C8_Witness ==
    /\ wk_pc = "done"
    /\ \E i, j \in 1..Len(MatchLines) :
           /\ i < j
           /\ \E k \in 1..Len(nodes[MatchLines[i].node].children) :
                  nodes[MatchLines[i].node].children[k] = MatchLines[j].node
    /\ \E i, j \in 1..Len(MatchLines) :
           /\ i < j
           /\ MatchLines[i].node # MatchLines[j].node
           /\ \E n \in 1..Len(nodes) :
                  \E k, l \in 1..Len(nodes[n].children) :
                      /\ nodes[n].children[k] = MatchLines[i].node
                      /\ nodes[n].children[l] = MatchLines[j].node
    /\ \E i, j \in 1..Len(MatchLines) :
           i < j /\ MatchLines[i].node = MatchLines[j].node

\* C9: when the text of a searched node does not decode, no match is emitted
\* for that node and the walk goes on: at its end every node of the tree,
\* the descendants of that node included, has been visited.
C9_DecodeErrorSkipsOnlyTheNode ==
    wk_pc = "done" =>
        /\ \A n \in 1..Len(nodes) : \E k \in 1..Len(visited) : visited[k].node = n
        /\ \A k \in 1..Len(MatchLines) : utf8_text(contents, nodes, MatchLines[k].node).ok

(***************************************************************************)
(* Properties of a run                                                     *)
(***************************************************************************)

\* What a run does with the entry at fpath and with what is below it, in the
\* order of the traversal: each entry with its path and "searched" (a file
\* read, parsed and walked), "failed" (a file that cannot be read or parsed,
\* a directory that cannot be listed, an entry that cannot be read or has no
\* metadata), "listed" (a directory) or "skipped" (a file with another
\* extension).  `named` says that the path is the one of the command line.
RECURSIVE Traversal(_, _, _)
RECURSIVE TraversalOfEntries(_, _, _)
Traversal(entry, fpath, named) ==
    LET is(outcome) == <<[path |-> fpath, entry |-> entry, outcome |-> outcome]>>
    IN  CASE entry.kind = "dir" /\ entry.readable ->
                 is("listed") \o TraversalOfEntries(entry.entries, fpath, 1)
          [] entry.kind = "dir" /\ ~entry.readable -> is("failed")
          [] entry.kind = "file" /\ ~named /\ ~entry.ext_ok -> is("skipped")
          [] entry.kind = "file" /\ (named \/ entry.ext_ok) ->
                 IF entry.readable /\ entry.parses THEN is("searched") ELSE is("failed")
          [] OTHER -> is("failed")

TraversalOfEntries(entries, dir, i) ==
    IF i > Len(entries) THEN <<>>
    ELSE Traversal(entries[i], Append(dir, i), FALSE)
             \o TraversalOfEntries(entries, dir, i + 1)

\* first, out and errs after the walks of the searched files of a traversal
\* from the i-th on, and of no other file
RECURSIVE OutputOfSearched(_, _, _)
OutputOfSearched(trav, i, rs) ==
    IF i > Len(trav) THEN rs
    ELSE IF trav[i].outcome # "searched" THEN OutputOfSearched(trav, i + 1, rs)
    ELSE CHOOSE final \in
             {OutputOfSearched(trav, i + 1, r) :
                  r \in {walk_ast(cfg, pat, trav[i].path, file_text(trav[i].entry.items),
                                  parse(trav[i].entry.items), rs, TRUE)}} : TRUE

\* The events of the output that name a file
NamesFile(event) == event.ev \in {"header", "match"}

\* C10: a file that cannot be read or parsed, a directory that cannot be
\* listed and an entry without metadata stop nothing but themselves: the run
\* ends only by returning from main or by a panic inside the walk of a file
\* that was read and parsed, no output names a failed entry, and the output
\* of a finished run is the output of the walks of the other files alone, in
\* the order of the traversal.
C10_FailuresAreLocal ==
    LET trav == Traversal(target, <<>>, TRUE)
    IN  /\ rn_pc = "panicked" => wk_pc = "panicked"
        /\ \A k \in 1..Len(out) :
               NamesFile(out[k]) =>
                   \A i \in 1..Len(trav) :
                       trav[i].outcome = "failed" => out[k].path # trav[i].path
        /\ rn_pc = "done" =>
               out = OutputOfSearched(trav, 1,
                                      [first |-> TRUE, out |-> <<>>, errs |-> <<>>]).out

\* C10 happens: a finished run has met a file it could not read or parse
\* and has later printed a match of another file, and it has met a directory
\* it could not list or an entry it could not read
C10_Witness ==
    LET trav == Traversal(target, <<>>, TRUE)
    IN  /\ rn_pc = "done"
        /\ \E i, j \in 1..Len(trav) :
               /\ i < j
               /\ trav[i].outcome = "failed"
               /\ trav[i].entry.kind = "file"
               /\ trav[j].outcome = "searched"
               /\ \E k \in 1..Len(out) : out[k].ev = "match" /\ out[k].path = trav[j].path
        /\ \E i \in 1..Len(trav) :
               trav[i].outcome = "failed" /\ trav[i].entry.kind # "file"

(***************************************************************************)
(* Properties of the search mode and of query mode                         *)
(***************************************************************************)

\* The query of the command line is a text that main compiles
QueryGiven == args.lang /\ args.query.some /\ args.query.val.tag = "Literal"

\* Its compilation, as main runs it, fails
QueryCompileFails == QueryGiven /\ ~Query_new(push_node_capture(args.query.val)).ok

\* No file has been read, parsed or searched, no directory listed, and
\* nothing printed
NothingSearched ==
    /\ out = <<>>
    /\ stack = <<>>
    /\ wk_pc = "idle"
    /\ contents = <<>>
    /\ nodes = <<>>
    /\ \A k \in 1..Len(errs) : errs[k][1] = "panicked"

\* C11: in a run whose query does not compile, main panics in building the
\* search mode: at every moment of the run no file has been read, parsed or
\* searched and no match is printed.
C11_InvalidQueryAborts ==
    QueryCompileFails => rn_pc \in {"start", "panicked"} /\ NothingSearched

\* C11 happens: the run of an ill-formed query over a file that can be
\* searched has panicked
C11_Witness ==
    /\ QueryCompileFails
    /\ rn_pc = "panicked"
    /\ target \in {FileA, FileB}
    /\ ~args.query.val.valid

RECURSIVE CapturesDefined(_)
\* The capture names a sequence of patterns defines
CapturesDefined(patterns) ==
    IF patterns = <<>> THEN {}
    ELSE {Head(patterns).caps[i] : i \in 1..Len(Head(patterns).caps)}
             \cup CapturesDefined(Head(patterns).kids)
             \cup CapturesDefined(Tail(patterns))

\* The query of the command line is well-formed and defines no capture
ZeroCaptures ==
    QueryGiven /\ args.query.val.valid /\ CapturesDefined(args.query.val.patterns) = {}

\* The events of the nodes reported in query mode
NodeEvents == SelectSeq(out, LAMBDA ev : ev.ev = "node")

AscendingRanges(rs) ==
    \A i, j \in 1..Len(rs) :
        i < j => \/ rs[i].start_byte < rs[j].start_byte
                 \/ rs[i].start_byte = rs[j].start_byte /\ rs[i].end_byte <= rs[j].end_byte

\* The ranges rs are the ranges of the captures cs, each once
SameRanges(rs, cs) ==
    /\ Len(rs) = Len(cs)
    /\ \A r \in {rs[i] : i \in 1..Len(rs)} :
           Cardinality({i \in 1..Len(rs) : rs[i] = r})
               = Cardinality({i \in 1..Len(cs) : cs[i].range = r})

\* C13: for every capture group reported, the node shown is the first
\* capture and the highlights are the ranges of the other captures in
\* ascending order of start byte, then of end byte.
C13_CaptureOrder ==
    \A k \in 1..Len(NodeEvents) :
        LET ev == NodeEvents[k]
        IN  /\ ev.node = ev.captures[1].node
            /\ SameRanges(ev.ranges, Tail(ev.captures))
            /\ AscendingRanges(ev.ranges)

\* The value -c gives for a capture name, if any
Filters(name) ==
    {args.captures[i].value : i \in {j \in 1..Len(args.captures) :
                                         args.captures[j].name = name}}

\* A capture is reportable: no filter for its name, or its text is the value
Reportable(cap) ==
    \/ Filters(cap.name) = {}
    \/ cap.text.ok /\ cap.text.val \in Filters(cap.name)

\* C14: every capture group reported has a reportable capture (and every
\* group with one is reported: run_query reports all groups).
C14_CaptureFilters ==
    \A k \in 1..Len(NodeEvents) :
        \E i \in 1..Len(NodeEvents[k].captures) : Reportable(NodeEvents[k].captures[i])

C19_PatternFolded ==
    /\ search_mode = "Pattern" /\ ~pat.case_sensitive => pat.word = to_lowercase(pat.word)
    /\ search_mode = "Pattern" => rn_pc # "panicked"

(***************************************************************************)
(* Properties of the grammar symbol resolver                               *)
(***************************************************************************)

\* The name ends in one of the six suffixes of the scanner's entry points
EndsInDenylisted(name) ==
    \E suffix \in {TS_SYM_SUFFIXES[i] : i \in 1..Len(TS_SYM_SUFFIXES)} :
        /\ Len(name) >= Len(suffix)
        /\ \A k \in 1..Len(suffix) : name[Len(name) - Len(suffix) + k] = suffix[k]

\* Entry i of the symbol table has a name that starts with the prefix and
\* does not end in a denylisted suffix
Qualifies(i) ==
    /\ lib.dynsyms[i].some
    /\ Len(lib.dynsyms[i].val) >= 1
    /\ lib.dynsyms[i].val[1] = "tree_sitter_"
    /\ ~EndsInDenylisted(lib.dynsyms[i].val)

\* The symbol table that find_lang_sym reads has a qualifying entry
HasCandidate ==
    /\ lib.object = "elf"
    /\ \E i \in 1..Len(lib.dynsyms) : Qualifies(i)

\* load_parser was called without a name and find_lang_sym has returned one
Resolved ==
    /\ ~lang_name.some
    /\ lp_pc \in {"named", "loaded", "got", "returned"}
    /\ lp_ret.err \notin {"IO", "Goblin", "CantFindLangName"}

\* C15: whatever the symbol table, the name the resolver returns does not end
\* in a denylisted scanner suffix, and neither does the symbol it selected
C15_NeverDenylisted ==
    Resolved =>
        /\ ~EndsInDenylisted(lang_sym)
        /\ ~EndsInDenylisted(TS_SYM_PREFIX \o lang_sym)

\* C15 happens: the resolver has passed over a scanner symbol with the prefix
\* and returned a name from the entry after it
C15_Witness ==
    /\ Resolved
    /\ Len(lib.dynsyms) = 2
    /\ lib.dynsyms[1].some
    /\ lib.dynsyms[1].val[1] = "tree_sitter_"
    /\ EndsInDenylisted(lib.dynsyms[1].val)
    /\ Qualifies(2)

\* C16: without an explicit name the resolver returns the first name of the
\* symbol table that qualifies, the exported name itself, so that the lookup
\* of the returned name in the library finds the selected symbol
C16_FirstExportedName ==
    Resolved =>
        \E i \in 1..Len(lib.dynsyms) :
            /\ Qualifies(i)
            /\ \A j \in 1..(i - 1) : ~Qualifies(j)
            /\ lang_sym = lib.dynsyms[i].val
            /\ Library_get(lib, lang_sym)

\* C17: without an explicit name and without a qualifying name in the symbol
\* table (or with an object that is not ELF) of a file that can be read and
\* parsed, the call fails with CantFindLangName, and only then; the library
\* is then never loaded and its function never called; a file that cannot be
\* read gives the IO error and one that cannot be parsed the Goblin error
C17_NotFound ==
    /\ lp_ret.err = "CantFindLangName" => ~loaded /\ ~invoked
    /\ (lp_pc = "returned" /\ ~lang_name.some) =>
        /\ lp_ret.err = "CantFindLangName"
              <=> (lib.readable /\ lib.object # "unparsable" /\ ~HasCandidate)
        /\ lp_ret.err = "IO" <=> ~lib.readable
        /\ lp_ret.err = "Goblin" <=> (lib.readable /\ lib.object = "unparsable")

\* C17 happens: the call has returned CantFindLangName for a loadable ELF
\* file whose symbol table has names with the prefix, all of the scanner
C17_Witness ==
    /\ lp_pc = "returned"
    /\ lp_ret.err = "CantFindLangName"
    /\ lib.object = "elf"
    /\ lib.loadable
    /\ Len(lib.dynsyms) = 2
    /\ \A i \in 1..2 : lib.dynsyms[i].some /\ lib.dynsyms[i].val[1] = "tree_sitter_"

(***************************************************************************)
(* Properties of the numbers printed with a match                          *)
(***************************************************************************)

\* The text of the token that match line e reports
TokenOf(e) == utf8_text(contents, nodes, e.node).val

\* The 0-based line of the file that holds the match of line e: the row of
\* the token's start plus the line breaks of the token before the match
LineOfMatch(e) ==
    start_position(contents, nodes, e.node).row
        + Cardinality(LineBreaks(Prefix(TokenOf(e), e.off)))

\* The 0-based column of the match of line e
ColumnOfMatch(e) ==
    CharColumn(TokenOf(e), start_position(contents, nodes, e.node).column, e.off)

\* C20: every match line printed in pattern mode shows the 1-based number of
\* the line that holds the match (the row of the token's start, plus the
\* line breaks crossed inside the token, plus one) and, with --column, the
\* 0-based column plus one
C20_OneBasedNumbers ==
    \A k \in 1..Len(MatchLines) :
        /\ MatchLines[k].lineno = LineOfMatch(MatchLines[k]) + 1
        /\ cfg.column => MatchLines[k].colno = ColumnOfMatch(MatchLines[k]) + 1

(***************************************************************************)
(* Properties of the walk as a traversal                                   *)
(***************************************************************************)

\* The number of times node n was popped from the work list
TimesVisited(n) == Cardinality({k \in 1..Len(visited) : visited[k].node = n})

\* The offsets the matcher finds in node n, whose text decodes
OccurrencesIn(n) ==
    match_token(utf8_text(contents, nodes, n).val, pat.word, IdentifierCase(n),
                cfg.whole_word, pat.case_sensitive, FALSE).offsets

\* No match line is printed twice for one occurrence of one node
NoneReportedTwice ==
    \A i, j \in 1..Len(MatchLines) :
        (MatchLines[i].node = MatchLines[j].node /\ MatchLines[i].off = MatchLines[j].off)
            => i = j

\* Every occurrence in node n has its match line
NoneMissedIn(n) ==
    \A k \in 1..Len(OccurrencesIn(n)) :
        \E i \in 1..Len(MatchLines) :
            MatchLines[i].node = n /\ MatchLines[i].off = OccurrencesIn(n)[k]

\* C21: when the walk of a tree has returned, every node of the tree was
\* popped from the work list exactly once, no occurrence was reported twice,
\* and every occurrence in a node that is searched (and whose text decodes)
\* was reported
C21_EveryNodeOnce ==
    wk_pc = "done" =>
        /\ \A n \in 1..Len(nodes) : TimesVisited(n) = 1
        /\ NoneReportedTwice
        /\ \A n \in 1..Len(nodes) :
               (Searched(n) /\ utf8_text(contents, nodes, n).ok) => NoneMissedIn(n)

\* What holds of the walk as it is: no node is popped twice (so that the
\* loop runs at most once per node of the tree and then ends), no occurrence
\* is reported twice, and none is missed in a node that was popped
WalkOfVisitedNodes ==
    /\ \A n \in 1..Len(nodes) : TimesVisited(n) <= 1
    /\ NoneReportedTwice
    /\ wk_pc = "done" =>
           \A k \in 1..Len(visited) : visited[k].matched => NoneMissedIn(visited[k].node)

(***************************************************************************)
(* Properties of the line printed with a match                             *)
(***************************************************************************)

\* The text as the search compares it with the pattern
Normalized(s) == IF pat.case_sensitive THEN s ELSE to_lowercase(s)

\* C22: every match line printed in pattern mode shows the line that holds
\* the match, cut in three at indices inside the line and on character
\* boundaries (before, highlighted, after, which together are the whole
\* line), and the highlighted part is the text of the token at the match:
\* normalized for the case policy it equals the pattern
C22_HighlightIsTheMatch ==
    \A k \in 1..Len(MatchLines) :
        LET e == MatchLines[k]
        IN  /\ e.text # <<>>
            /\ e.text[1] \o e.text[2] \o e.text[3] = lines(contents)[LineOfMatch(e) + 1]
            /\ Normalized(e.text[2]) = pat.word

(***************************************************************************)
(* Properties of the classification                                        *)
(***************************************************************************)

\* C23: a node goes to the matcher as an identifier only if its kind is
\* neither a comment kind nor the string-literal kind, and a string literal
\* without children that is searched goes to the matcher as a string
\* literal, also when identifiers are searched too
C23_ExclusiveClassification ==
    \A k \in 1..Len(visited) :
        LET v == visited[k]
            kind == nodes[v.node].kind
        IN  /\ v.is_id => kind \notin {"block_comment", "line_comment", "string_literal"}
            /\ (kind = "string_literal" /\ nodes[v.node].children = <<>> /\ v.matched)
                   => ~v.is_id

(***************************************************************************)
(* Properties of the rendering of a query match                            *)
(***************************************************************************)

\* The output without the marks of the highlights, which are pushed only
\* when colours are enabled
Colourless(output) == SelectSeq(output, LAMBDA c : c \notin {HlOn, HlOff})

RECURSIVE Indented(_, _)
\* The text s with indent spaces added after each newline
Indented(s, indent) ==
    IF s = <<>> THEN <<>>
    ELSE <<Head(s)>> \o (IF Head(s) = LF THEN [k \in 1..indent |-> " "] ELSE <<>>)
             \o Indented(Tail(s), indent)

\* The ranges lie in the byte range of node n of the event and are sorted by
\* start byte
RangesWithin(e) ==
    /\ \A k \in 1..Len(e.ranges) :
           /\ e.captures[1].range.start_byte <= e.ranges[k].start_byte
           /\ e.ranges[k].end_byte <= e.captures[1].range.end_byte
    /\ \A k \in 1..(Len(e.ranges) - 1) :
           e.ranges[k].start_byte <= e.ranges[k + 1].start_byte

\* C24: the rendering of every query match, whose capture ranges lie in the
\* range of the parent node and are sorted by start byte, finishes without
\* unwrapping an exhausted iterator, and what it prints is, the marks of the
\* highlights aside, the text of the node with the indentation added after
\* each newline
C24_RenderingCompletes ==
    \A k \in 1..Len(NodeEvents) :
        LET e == NodeEvents[k]
        IN  RangesWithin(e) =>
                /\ e.text # <<>>
                /\ Colourless(e.text) = Indented(e.node_str, digits(e.lineno) + 1)

\* What holds of the rendering as it is: when it finishes, it prints the
\* text of the node with the indentation added after each newline
RenderingWhenCompleted ==
    \A k \in 1..Len(NodeEvents) :
        NodeEvents[k].text # <<>> =>
            Colourless(NodeEvents[k].text)
                = Indented(NodeEvents[k].node_str, digits(NodeEvents[k].lineno) + 1)

(***************************************************************************)
(* Properties of the grouping of the output                                *)
(***************************************************************************)

\* The match lines of the file of item i of a traversal, searched on its
\* own, as they are printed in a run: without the path when grouping, with
\* the path of the file when not
MatchLinesOfFile(trav, i) ==
    LET alone == walk_ast(cfg, pat, trav[i].path, file_text(trav[i].entry.items),
                          parse(trav[i].entry.items),
                          [first |-> TRUE, out |-> <<>>, errs |-> <<>>], TRUE).out
        found == SelectSeq(alone, LAMBDA ev : ev.ev = "match")
    IN  [k \in 1..Len(found) |->
            [found[k] EXCEPT !.path = IF cfg.group THEN <<>> ELSE trav[i].path]]

\* The output of a run in groups: for every searched file of the traversal
\* from the i-th on that has a match, a blank line unless it is the first
\* group, the header of the file, and its match lines; without grouping, the
\* match lines alone
RECURSIVE GroupsOf(_, _, _)
GroupsOf(trav, i, isFirst) ==
    IF i > Len(trav) THEN <<>>
    ELSE IF trav[i].outcome # "searched" THEN GroupsOf(trav, i + 1, isFirst)
    ELSE LET ms == MatchLinesOfFile(trav, i)
         IN  IF ms = <<>> THEN GroupsOf(trav, i + 1, isFirst)
             ELSE IF ~cfg.group THEN ms \o GroupsOf(trav, i + 1, isFirst)
             ELSE (IF isFirst THEN <<>> ELSE <<[ev |-> "blank"]>>)
                      \o <<[ev |-> "header", path |-> trav[i].path]>>
                      \o ms \o GroupsOf(trav, i + 1, FALSE)

\* C25: when grouping, the output is a sequence of groups, one for every
\* searched file with a match: the header of a file is printed once, right
\* before the first match line of the file, a blank line comes before every
\* header but the first of the run, and the lines of two files do not mix;
\* when not grouping, no header and no blank line is printed and every match
\* line carries the path of its file
C25_FileGroups ==
    /\ cfg.group =>
           /\ out # <<>> => out[1].ev = "header"
           /\ \A k \in 1..Len(out) :
                  /\ out[k].ev = "header" =>
                         /\ k > 1 => out[k - 1].ev = "blank"
                         /\ k < Len(out) => out[k + 1].ev = "match"
                         /\ \A j \in 1..Len(out) :
                                (out[j].ev = "header" /\ out[j].path = out[k].path) => j = k
                  /\ out[k].ev = "blank" => (k < Len(out) /\ out[k + 1].ev = "header")
    /\ ~cfg.group => \A k \in 1..Len(out) : out[k].ev = "match"
    /\ rn_pc = "done" => out = GroupsOf(Traversal(target, <<>>, TRUE), 1, TRUE)

\* C25 happens: a finished run that groups has printed the groups of two
\* files, the second after a blank line, and a group of several match lines
C25_Witness ==
    /\ rn_pc = "done"
    /\ cfg.group
    /\ \E i, j \in 1..Len(out) :
           /\ i < j
           /\ out[i].ev = "header"
           /\ out[j].ev = "blank"
           /\ j + 2 <= Len(out)
           /\ out[j + 1].ev = "header"
           /\ out[j + 1].path # out[i].path
    /\ \E k \in 1..(Len(out) - 1) : out[k].ev = "match" /\ out[k + 1].ev = "match"

====
